---- MODULE Spec2Model ----
(***************************************************************************)
(* Scene-change detector of av-scenechange (src/src/scenechange/mod.rs and *)
(* src/src/scenechange/fast.rs) as a state machine.                        *)
(*                                                                         *)
(* Representation.                                                         *)
(*  - A frame is its luma plane (planes[0], the only plane the detector    *)
(*    reads); a plane is a flat gray plane [width, height, luma].          *)
(*  - Option<T> is a sequence of at most one element: None is << >>,       *)
(*    Some(x) is << x >>.                                                  *)
(*  - Every f64 of the source (costs and thresholds) is kept exactly, as   *)
(*    an integer number of eighths: 18.0 * bit_depth / 8.0 is kept as      *)
(*    18 * bit_depth.  Thresholds are whole numbers of eighths, so         *)
(*    a >= b on the f64 values is >= on the (floored) eighths.             *)
(*  - Vec and slices are 0-based in the source and 1-based here:           *)
(*    score_deque[i] of the source is score_deque[i + 1].                  *)
(*  - A subtraction of unsigned integers whose result is below zero        *)
(*    depends on the build: with overflow checks (debug) it panics,        *)
(*    without them (release) it wraps.  Every call picks its build with    *)
(*    overflow_checks.  A wrapped u64 or usize is held by its              *)
(*    two's-complement reading, 2^64 - k as -k: deque_offset = -1 is       *)
(*    usize::MAX, which is out of range as an index, and -1 + 1 = 0 is     *)
(*    the wrapping sum.  Wrapped distances are compared with u64_lt.       *)
(***************************************************************************)
EXTENDS Integers, Sequences, FiniteSets, TLC

VARIABLES
    config,   \* the arguments SceneChangeDetector::new was called with
    det,      \* the SceneChangeDetector (its fields)
    outcome,  \* how the last call of analyze_next_frame ended
    calls,    \* number of analyze_next_frame calls made
    cmp,      \* the last direct call of fast_scenecut (comparator runs)
    policy,   \* the last application of detect_scale_factor
    stream,   \* the caller's decoded video (luma of every frame)
    frameno,  \* the caller's current frame number
    keyframes, \* the caller's list of confirmed keyframes
    downscaled, \* frame numbers passed to a downscale routine, in order
    decision  \* what adaptive_scenecut, applied on its own, returned

vars ==
    << config, det, outcome, calls, cmp, policy, stream, frameno, keyframes,
       downscaled, decision >>

None == << >>
Some(x) == << x >>

Min(a, b) == IF a <= b THEN a ELSE b
Abs(a) == IF a < 0 THEN -a ELSE a

(***************************************************************************)
(* Constants of the source.                                                *)
(***************************************************************************)
IMP_BLOCK_DIFF_THRESHOLD == 7
FAST_THRESHOLD == 18
\* One f64 unit, in eighths.
Eighths == 8

(***************************************************************************)
(* Planes and the external primitives.                                     *)
(***************************************************************************)
Plane(width, height, luma) == [width |-> width, height |-> height, luma |-> luma]

\* Plane::downscale::<SCALE>: a new plane of the reduced size.
downscale(plane, SCALE) ==
    Plane(plane.width \div SCALE, plane.height \div SCALE, plane.luma)

\* Plane::downscale_in_place::<SCALE>: every sample of in_plane is rewritten
\* from plane; in_plane keeps its own size.
downscale_in_place(plane, in_plane, SCALE) ==
    Plane(in_plane.width, in_plane.height, plane.luma)

\* sad_plane::sad_plane: sum of absolute differences of two planes (u64).
sad_plane(plane1, plane2) ==
    Abs(plane1.luma - plane2.luma) * plane1.width * plane1.height

RECURSIVE trailing_zeros(_)
trailing_zeros(d) == IF d % 2 = 1 THEN 0 ELSE 1 + trailing_zeros(d \div 2)

\* fast_idiv: n >> d.trailing_zeros(), d a nonzero power of two.
fast_idiv(n, d) == n \div (2 ^ trailing_zeros(d))

(***************************************************************************)
(* fast.rs: the downscale policy.                                          *)
(***************************************************************************)
ScaleFunction(SCALE) == [factor |-> SCALE]

\* Mutant: the policy reads the larger edge.
detect_scale_factor_by_larger_edge(max_width, max_height) ==
    LET large_edge == IF max_height >= max_width THEN max_height ELSE max_width
    IN  IF large_edge <= 240 THEN None
        ELSE IF large_edge <= 480 THEN Some(ScaleFunction(2))
        ELSE IF large_edge <= 720 THEN Some(ScaleFunction(4))
        ELSE IF large_edge <= 1080 THEN Some(ScaleFunction(8))
        ELSE IF large_edge <= 1600 THEN Some(ScaleFunction(16))
        ELSE Some(ScaleFunction(32))

detect_scale_factor(max_width, max_height) ==
    LET small_edge == Min(max_height, max_width)
    IN  IF small_edge <= 240 THEN None
        ELSE IF small_edge <= 480 THEN Some(ScaleFunction(2))
        ELSE IF small_edge <= 720 THEN Some(ScaleFunction(4))
        ELSE IF small_edge <= 1080 THEN Some(ScaleFunction(8))
        ELSE IF small_edge <= 1600 THEN Some(ScaleFunction(16))
        ELSE Some(ScaleFunction(32))

(***************************************************************************)
(* mod.rs: SceneChangeDetector::new.                                       *)
(***************************************************************************)
\* Mutant: the offset follows a short lookahead down.
start_offset_min(lookahead_distance) == Min(5, lookahead_distance)

\* 107-108: "Set lookahead offset to 5 if normal lookahead available".
start_offset(lookahead_distance) == IF lookahead_distance >= 5 THEN 5 ELSE 0

new(bit_depth, lookahead_distance, max_frame_width, max_frame_height, min_kf_interval, max_kf_interval) ==
    LET scale_func == detect_scale_factor(max_frame_width, max_frame_height)
        lookahead_offset == start_offset(lookahead_distance)
        factor == IF scale_func = None THEN 1 ELSE scale_func[1].factor
    IN  [ threshold |-> FAST_THRESHOLD * bit_depth,
          scale_func |-> scale_func,
          downscaled_frame_buffer |-> None,
          frame_ref_buffer |-> None,
          lookahead_offset |-> lookahead_offset,
          deque_offset |-> lookahead_offset,
          score_deque |-> << >>,
          pixels |-> fast_idiv(max_frame_height, factor)
                       * fast_idiv(max_frame_width, factor),
          bit_depth |-> bit_depth,
          min_kf_interval |-> min_kf_interval,
          max_kf_interval |-> max_kf_interval ]

(***************************************************************************)
(* fast.rs: the frame-pair comparator.                                     *)
(***************************************************************************)
\* delta as f64 / pixels as f64, in eighths.
delta_in_planes(self, plane1, plane2) ==
    (Eighths * sad_plane(plane1, plane2)) \div self.pixels

\* Mutant: only the forward costs carry the delta.
ScenecutResult_forward_only(threshold, delta) ==
    [ threshold |-> threshold,
      imp_block_cost |-> delta,
      forward_adjusted_cost |-> delta,
      backward_adjusted_cost |-> 0 ]

ScenecutResult(threshold, delta) ==
    [ threshold |-> threshold,
      imp_block_cost |-> delta,
      forward_adjusted_cost |-> delta,
      backward_adjusted_cost |-> delta ]

\* Mutant: the slots are not swapped before frame2 is scaled into slot 1.
scaled_buffer_without_swap(self, frame1, frame2) ==
    LET SCALE == self.scale_func[1].factor
    IN  IF self.downscaled_frame_buffer # None
        THEN LET frame_buffer == self.downscaled_frame_buffer[1][1]
             IN  Some(<< << frame_buffer[1],
                            downscale_in_place(frame2, frame_buffer[2], SCALE) >>,
                         TRUE >>)
        ELSE Some(<< << downscale(frame1, SCALE), downscale(frame2, SCALE) >>, TRUE >>)

\* The scaled branch's buffer update (fast.rs 22-42).
scaled_buffer(self, frame1, frame2) ==
    LET SCALE == self.scale_func[1].factor
    IN  IF self.downscaled_frame_buffer # None
        THEN LET frame_buffer == self.downscaled_frame_buffer[1][1]
                 is_initialized == self.downscaled_frame_buffer[1][2]
             IN  IF is_initialized
                 THEN \* swap(0, 1), then frame2 into slot 1
                      Some(<< << frame_buffer[2],
                                 downscale_in_place(frame2, frame_buffer[1], SCALE) >>,
                              TRUE >>)
                 ELSE Some(<< << downscale_in_place(frame1, frame_buffer[1], SCALE),
                                 downscale_in_place(frame2, frame_buffer[2], SCALE) >>,
                              TRUE >>)
        ELSE Some(<< << downscale(frame1, SCALE), downscale(frame2, SCALE) >>, TRUE >>)

\* The unscaled branch's buffer update (fast.rs 60-65).
ref_buffer(self, frame1, frame2) ==
    IF self.frame_ref_buffer # None
    THEN Some(<< self.frame_ref_buffer[1][2], frame2 >>)
    ELSE Some(<< frame1, frame2 >>)

\* Mutant: the scaled branch also retains the two frame references.
fast_scenecut_retaining_frames(self, frame1, frame2) ==
    IF self.scale_func # None
    THEN LET buf == scaled_buffer(self, frame1, frame2)
             after == [self EXCEPT !.downscaled_frame_buffer = buf,
                                   !.frame_ref_buffer = ref_buffer(self, frame1, frame2)]
             delta == delta_in_planes(after, buf[1][1][1], buf[1][1][2])
         IN  [self |-> after, result |-> ScenecutResult(self.threshold, delta)]
    ELSE LET buf == ref_buffer(self, frame1, frame2)
             after == [self EXCEPT !.frame_ref_buffer = buf]
             delta == delta_in_planes(after, buf[1][1], buf[1][2])
         IN  [self |-> after, result |-> ScenecutResult(self.threshold, delta)]

\* fast_scenecut: the detector after the call, and the result returned.
fast_scenecut(self, frame1, frame2) ==
    IF self.scale_func # None
    THEN LET buf == scaled_buffer(self, frame1, frame2)
             after == [self EXCEPT !.downscaled_frame_buffer = buf]
             delta == delta_in_planes(after, buf[1][1][1], buf[1][1][2])
         IN  [self |-> after, result |-> ScenecutResult(self.threshold, delta)]
    ELSE LET buf == ref_buffer(self, frame1, frame2)
             after == [self EXCEPT !.frame_ref_buffer = buf]
             delta == delta_in_planes(after, buf[1][1], buf[1][2])
         IN  [self |-> after, result |-> ScenecutResult(self.threshold, delta)]

(***************************************************************************)
(* mod.rs: the cost history and the decision engine.                       *)
(***************************************************************************)
\* run_comparison: the new result goes to the front of score_deque.
run_comparison(self, frame1, frame2) ==
    LET r == fast_scenecut(self, frame1, frame2)
    IN  [r.self EXCEPT !.score_deque = << r.result >> \o @]

\* initialize_score_deque: for x in 0..init_len, compare frame_set[x] and
\* frame_set[x + 1]; x is the loop variable.
RECURSIVE initialize_from(_, _, _, _)
initialize_from(self, frame_set, x, init_len) ==
    IF x >= init_len THEN self
    ELSE initialize_from(run_comparison(self, frame_set[x + 1], frame_set[x + 2]),
                         frame_set, x + 1, init_len)

\* Mutant: the loop starts at the second pair.
initialize_score_deque_from_second_pair(self, frame_set, init_len) ==
    initialize_from(self, frame_set, 1, init_len)

initialize_score_deque(self, frame_set, init_len) ==
    initialize_from(self, frame_set, 0, init_len)

\* a < b on u64 values held by their two's-complement reading: the values
\* from 2^63 up (held as negative numbers) are above all the others.
u64_lt(a, b) == IF (a < 0) <=> (b < 0) THEN a < b ELSE b < 0

\* 159: let distance = input_frameno - previous_keyframe, in u64.  None: the
\* panic 'attempt to subtract with overflow' of a build with overflow checks;
\* without them the difference wraps to 2^64 - (previous_keyframe -
\* input_frameno), held as the negative difference.
keyframe_distance(input_frameno, previous_keyframe, overflow_checks) ==
    IF previous_keyframe > input_frameno /\ overflow_checks THEN None
    ELSE Some(input_frameno - previous_keyframe)

\* Mutant: a keyframe is forced only past max_kf_interval.
handle_min_max_intervals_past_max(self, distance) ==
    IF u64_lt(distance, self.min_kf_interval) THEN Some(FALSE)
    ELSE IF u64_lt(self.max_kf_interval, distance) THEN Some(TRUE)
    ELSE None

\* Mutant: the maximum interval is tested before the minimum.
handle_min_max_intervals_max_first(self, distance) ==
    IF ~ u64_lt(distance, self.max_kf_interval) THEN Some(TRUE)
    ELSE IF u64_lt(distance, self.min_kf_interval) THEN Some(FALSE)
    ELSE None

\* handle_min_max_intervals: Some(false), Some(true) or None.
handle_min_max_intervals(self, distance) ==
    IF u64_lt(distance, self.min_kf_interval) THEN Some(FALSE)
    ELSE IF ~ u64_lt(distance, self.max_kf_interval) THEN Some(TRUE)
    ELSE None

\* Locals of adaptive_scenecut.
imp_block_threshold(self) == IMP_BLOCK_DIFF_THRESHOLD * self.bit_depth

\* &self.score_deque[self.deque_offset + 1..]
back_deque(self) ==
    SubSeq(self.score_deque, self.deque_offset + 2, Len(self.score_deque))

\* &self.score_deque[..self.deque_offset]
forward_deque(self) == SubSeq(self.score_deque, 1, self.deque_offset)

back_over_tr_count(self) ==
    Cardinality({ i \in DOMAIN back_deque(self) :
        back_deque(self)[i].backward_adjusted_cost >= back_deque(self)[i].threshold })

forward_over_tr_count(self) ==
    Cardinality({ i \in DOMAIN forward_deque(self) :
        forward_deque(self)[i].forward_adjusted_cost >= forward_deque(self)[i].threshold })

\* Mutant: the importance-block test leaves the decision entry out and reads
\* the entries newer than it.
imp_block_evidence_newer_only(self) ==
    \E i \in 1..self.deque_offset :
        self.score_deque[i].imp_block_cost >= imp_block_threshold(self)

\* The importance-block test (mod.rs 255-261): some entry of
\* score_deque[deque_offset..] has imp_block_cost >= imp_block_threshold.
imp_block_evidence(self) ==
    \E i \in (self.deque_offset + 1)..Len(self.score_deque) :
        self.score_deque[i].imp_block_cost >= imp_block_threshold(self)

\* Mutant: the ambiguous flash pattern (mod.rs 295-297) is not suppressed.
adaptive_decision_without_suppression(self) ==
    LET score == self.score_deque[self.deque_offset + 1]
        cost == score.forward_adjusted_cost
        back == back_over_tr_count(self)
        forward == forward_over_tr_count(self)
    IN  IF ~ imp_block_evidence(self) THEN FALSE
        ELSE IF cost >= score.threshold
        THEN IF forward = 0 /\ back >= 2 THEN TRUE
             ELSE IF /\ back = 0
                     /\ forward = 1
                     /\ forward_deque(self)[1].forward_adjusted_cost
                            >= forward_deque(self)[1].threshold
                  THEN TRUE
             ELSE cost >= score.threshold
        ELSE cost >= score.threshold

\* Mutant: importance-block evidence alone makes a scene cut.
adaptive_decision_on_evidence_alone(self) == imp_block_evidence(self)

\* Mutant: any single forward entry over its threshold passes for the flash
\* that follows the cut (the test of forward_deque[0] is left out).
adaptive_decision_any_forward(self) ==
    LET score == self.score_deque[self.deque_offset + 1]
        cost == score.forward_adjusted_cost
        back == back_over_tr_count(self)
        forward == forward_over_tr_count(self)
    IN  IF ~ imp_block_evidence(self) THEN FALSE
        ELSE IF cost >= score.threshold
        THEN IF forward = 0 /\ back >= 2 THEN TRUE
             ELSE IF back = 0 /\ forward = 1 THEN TRUE
             ELSE IF back # 0 \/ forward # 0 THEN FALSE
             ELSE cost >= score.threshold
        ELSE cost >= score.threshold

\* Mutant: three backward entries are required instead of two.
adaptive_decision_three_back(self) ==
    LET score == self.score_deque[self.deque_offset + 1]
        cost == score.forward_adjusted_cost
        back == back_over_tr_count(self)
        forward == forward_over_tr_count(self)
    IN  IF ~ imp_block_evidence(self) THEN FALSE
        ELSE IF cost >= score.threshold
        THEN IF forward = 0 /\ back >= 3 THEN TRUE
             ELSE IF /\ back = 0
                     /\ forward = 1
                     /\ forward_deque(self)[1].forward_adjusted_cost
                            >= forward_deque(self)[1].threshold
                  THEN TRUE
             ELSE IF back # 0 \/ forward # 0 THEN FALSE
             ELSE cost >= score.threshold
        ELSE cost >= score.threshold

\* Mutant: the flash rules are applied whatever the decision entry's cost.
adaptive_decision_rules_below_threshold(self) ==
    LET score == self.score_deque[self.deque_offset + 1]
        cost == score.forward_adjusted_cost
        back == back_over_tr_count(self)
        forward == forward_over_tr_count(self)
    IN  IF ~ imp_block_evidence(self) THEN FALSE
        ELSE IF forward = 0 /\ back >= 2 THEN TRUE
        ELSE IF /\ back = 0
                /\ forward = 1
                /\ forward_deque(self)[1].forward_adjusted_cost
                       >= forward_deque(self)[1].threshold
             THEN TRUE
        ELSE IF (back # 0 \/ forward # 0) /\ cost >= score.threshold THEN FALSE
        ELSE cost >= score.threshold

\* adaptive_scenecut, for deque_offset a valid index of score_deque.
adaptive_decision(self) ==
    LET score == self.score_deque[self.deque_offset + 1]
        cost == score.forward_adjusted_cost
        back == back_over_tr_count(self)
        forward == forward_over_tr_count(self)
        back_count_req == 2
    IN  IF ~ imp_block_evidence(self) THEN FALSE
        ELSE IF cost >= score.threshold
        THEN IF forward = 0 /\ back >= back_count_req THEN TRUE
             ELSE IF /\ back = 0
                     /\ forward = 1
                     /\ forward_deque(self)[1].forward_adjusted_cost
                            >= forward_deque(self)[1].threshold
                  THEN TRUE
             ELSE IF back # 0 \/ forward # 0 THEN FALSE
             ELSE cost >= score.threshold
        ELSE cost >= score.threshold

\* adaptive_scenecut: Some(decision), or None when score_deque[deque_offset]
\* is out of range (the index panics, mod.rs 244); a deque_offset below zero
\* is a wrapped one.
adaptive_scenecut(self) ==
    IF self.deque_offset < 0 \/ self.deque_offset >= Len(self.score_deque) THEN None
    ELSE Some(adaptive_decision(self))

(***************************************************************************)
(* mod.rs: analyze_next_frame, step by step.                               *)
(***************************************************************************)
\* Mutant: the guard lets a window of lookahead_offset frames through.
too_few_frames_strict(self, frame_set) == Len(frame_set) < self.lookahead_offset

\* Mutant: the guard compares the window with the deque offset.
too_few_frames_by_deque_offset(self, frame_set) == Len(frame_set) <= self.deque_offset

\* 161-165: the short-window guard.
too_few_frames(self, frame_set) == Len(frame_set) <= self.lookahead_offset

\* Mutant: the long-window initialization compares one pair too few.
prime_one_pair_short(self, frame_set, overflow_checks) ==
    IF /\ self.deque_offset > 0
       /\ Len(frame_set) > self.deque_offset + 1
       /\ self.score_deque = << >>
    THEN Some(initialize_score_deque(self, frame_set, self.deque_offset - 1))
    ELSE IF self.score_deque = << >>
    THEN LET filled == initialize_score_deque(self, frame_set, Len(frame_set) - 1)
         IN  IF Len(frame_set) - 2 < 0 /\ overflow_checks THEN None
             ELSE Some([filled EXCEPT !.deque_offset = Len(frame_set) - 2])
    ELSE Some(self)

\* 167-178: initialization of the score deque.  On a one-frame window
\* frame_set.len() - 2 overflows: None is the panic of a build with overflow
\* checks; without them deque_offset wraps to usize::MAX, held as -1.
prime(self, frame_set, overflow_checks) ==
    IF /\ self.deque_offset > 0
       /\ Len(frame_set) > self.deque_offset + 1
       /\ self.score_deque = << >>
    THEN Some(initialize_score_deque(self, frame_set, self.deque_offset))
    ELSE IF self.score_deque = << >>
    THEN LET filled == initialize_score_deque(self, frame_set, Len(frame_set) - 1)
         IN  IF Len(frame_set) - 2 < 0 /\ overflow_checks THEN None
             ELSE Some([filled EXCEPT !.deque_offset = Len(frame_set) - 2])
    ELSE Some(self)

\* Mutant: the deque offset stays when the window brings no new pair.
advance_without_step_back(self, frame_set, overflow_checks) ==
    IF Len(frame_set) > self.deque_offset + 1
    THEN IF self.deque_offset < 0 THEN None
         ELSE Some(run_comparison(self, frame_set[self.deque_offset + 1],
                                        frame_set[self.deque_offset + 2]))
    ELSE Some(self)

\* 179-188: one more comparison, or one step back of the deque offset.
\* None is a panic: frame_set[deque_offset] out of range at mod.rs 183 (a
\* deque_offset wrapped by the initialization, whose + 1 wraps to 0), or
\* deque_offset - 1 overflowing in a build with overflow checks; without them
\* deque_offset wraps to usize::MAX, held as -1.
advance(self, frame_set, overflow_checks) ==
    IF Len(frame_set) > self.deque_offset + 1
    THEN IF self.deque_offset < 0 THEN None
         ELSE Some(run_comparison(self, frame_set[self.deque_offset + 1],
                                        frame_set[self.deque_offset + 2]))
    ELSE IF self.deque_offset - 1 < 0 /\ overflow_checks THEN None
    ELSE Some([self EXCEPT !.deque_offset = @ - 1])

\* Mutant: the newest result is dropped instead of the oldest.
evict_newest(self) ==
    IF Len(self.score_deque) > 5 + self.lookahead_offset
    THEN [self EXCEPT !.score_deque = SubSeq(@, 2, Len(@))]
    ELSE self

\* 205-209: the oldest result is dropped once the deque is over its size.
evict(self) ==
    IF Len(self.score_deque) > 5 + self.lookahead_offset
    THEN [self EXCEPT !.score_deque = SubSeq(@, 1, Len(@) - 1)]
    ELSE self

\* 161-191: everything analyze_next_frame does before the interval override.
\* self: the detector so far (where the call panicked, the detector at the
\* panic); outcome: "short" (the guard returned false), "panicked", or
\* "decided" with adaptive, the value of adaptive_scenecut.
examine(self, frame_set, overflow_checks) ==
    IF too_few_frames(self, frame_set)
    THEN [self |-> self, outcome |-> "short", adaptive |-> FALSE]
    ELSE LET primed == prime(self, frame_set, overflow_checks)
         IN  IF primed = None
             THEN [self |-> self, outcome |-> "panicked", adaptive |-> FALSE]
             ELSE LET advanced == advance(primed[1], frame_set, overflow_checks)
                  IN  IF advanced = None
                      THEN [self |-> primed[1], outcome |-> "panicked", adaptive |-> FALSE]
                      ELSE LET adaptive == adaptive_scenecut(advanced[1])
                           IN  IF adaptive = None
                               THEN [self |-> advanced[1], outcome |-> "panicked",
                                     adaptive |-> FALSE]
                               ELSE [self |-> advanced[1], outcome |-> "decided",
                                     adaptive |-> adaptive[1]]

\* Mutant: a call whose result the intervals force evicts nothing.
conclude_evicting_unforced(examined, distance) ==
    IF examined.outcome = "short"
    THEN [self |-> examined.self, outcome |-> "returned", scenecut |-> FALSE]
    ELSE IF examined.outcome = "panicked"
    THEN [self |-> examined.self, outcome |-> "panicked", scenecut |-> FALSE]
    ELSE LET forced == handle_min_max_intervals(examined.self, distance)
         IN  [self |-> IF forced # None THEN examined.self ELSE evict(examined.self),
              outcome |-> "returned",
              scenecut |-> IF forced # None THEN forced[1] ELSE examined.adaptive]

\* 192-211: the interval override, the eviction and the value returned.
conclude(examined, distance) ==
    IF examined.outcome = "short"
    THEN [self |-> examined.self, outcome |-> "returned", scenecut |-> FALSE]
    ELSE IF examined.outcome = "panicked"
    THEN [self |-> examined.self, outcome |-> "panicked", scenecut |-> FALSE]
    ELSE LET forced == handle_min_max_intervals(examined.self, distance)
         IN  [self |-> evict(examined.self),
              outcome |-> "returned",
              scenecut |-> IF forced # None THEN forced[1] ELSE examined.adaptive]

\* 159-211: the call from its distance on.  The distance is computed before
\* anything else: where that panics the detector is as the caller left it.
complete(self, examined, distance) ==
    IF distance = None
    THEN [self |-> self, outcome |-> "panicked", scenecut |-> FALSE]
    ELSE conclude(examined, distance[1])

\* The window positions (0-based) of the second frames of the pairs a call
\* hands to fast_scenecut, in order: those of the priming loop (mod.rs
\* 227-229), then that of the comparison at mod.rs 182-185.
compared_seconds(self, frame_set, overflow_checks) ==
    IF too_few_frames(self, frame_set) \/ prime(self, frame_set, overflow_checks) = None
    THEN << >>
    ELSE LET primed == prime(self, frame_set, overflow_checks)[1]
             advanced == advance(primed, frame_set, overflow_checks)
             priming == [ x \in 1..(Len(primed.score_deque) - Len(self.score_deque))
                            |-> x ]
         IN  IF /\ advanced # None
                /\ Len(advanced[1].score_deque) > Len(primed.score_deque)
             THEN Append(priming, primed.deque_offset + 1)
             ELSE priming

\* The window positions of the frames a call passes to downscale or
\* downscale_in_place, in order (fast.rs 22-42): both frames of the first
\* pair ever compared, afterwards the second frame of every pair.
downscaled_positions(self, frame_set, overflow_checks) ==
    LET seconds == compared_seconds(self, frame_set, overflow_checks)
    IN  IF self.scale_func = None \/ seconds = << >> THEN << >>
        ELSE IF self.downscaled_frame_buffer = None
        THEN << seconds[1] - 1 >> \o seconds
        ELSE seconds

\* analyze_next_frame: the detector after the call, whether the call
\* returned or panicked, and the value returned.
analyze_next_frame(self, frame_set, input_frameno, previous_keyframe, overflow_checks) ==
    complete(self, examine(self, frame_set, overflow_checks),
             keyframe_distance(input_frameno, previous_keyframe, overflow_checks))

(***************************************************************************)
(* Bounds of the model.                                                    *)
(***************************************************************************)
\* Longest window a caller presents in one call.
MaxWindow == 7
\* Number of analyze_next_frame calls in one run.
MaxCalls == 2
\* Largest frame number a caller passes.
MaxFrameno == 2

LookaheadDistances == {0, 5}
BitDepths == {8}
\* << max_frame_width, max_frame_height >>
Resolutions == { << 320, 240 >>, << 640, 480 >> }
\* << min_kf_interval, max_kf_interval >>
KfIntervals == { << 1, 2 >>, << 2, 1 >> }
\* Luma of the flat frames.
Lumas == {0, 255}

Configs ==
    [ bit_depth : BitDepths,
      lookahead_distance : LookaheadDistances,
      resolution : Resolutions,
      kf_intervals : KfIntervals ]

Construct(c) ==
    new(c.bit_depth, c.lookahead_distance, c.resolution[1], c.resolution[2],
        c.kf_intervals[1], c.kf_intervals[2])

\* A decoded frame of the configured video.
Frame(c, luma) == Plane(c.resolution[1], c.resolution[2], luma)

\* The indices of an n-frame window that a call on self reads: all of them
\* while the score deque is empty (mod.rs 173-178, 227-229), afterwards only
\* frame_set[deque_offset] and frame_set[deque_offset + 1] (mod.rs 181-185).
ReadIndices(self, n) ==
    IF self.score_deque = << >> THEN 1..n
    ELSE {self.deque_offset + 1, self.deque_offset + 2} \cap 1..n

\* The windows of n frames presented to self.  The frames the call does not
\* read are all of the first luma.
Windows(self, c, n) ==
    { [i \in 1..n |-> Frame(c, IF i \in ReadIndices(self, n) THEN w[i] ELSE 0)] :
        w \in [ReadIndices(self, n) -> Lumas] }

FrameSets(self, c) == UNION { Windows(self, c, n) : n \in 0..MaxWindow }

Framenos == 0..MaxFrameno
\* previous_keyframe is any u64 (mod.rs 153), also one above input_frameno.
PreviousKeyframes == 0..MaxFrameno

NoCompare == [ n |-> 0 ]
NoPolicy == [ applied |-> FALSE ]

(***************************************************************************)
(* Spec: one detector, called with arbitrary windows.                      *)
(***************************************************************************)
Init ==
    /\ config \in Configs
    /\ det = Construct(config)
    /\ outcome = "none"
    /\ calls = 0
    /\ cmp = NoCompare
    /\ policy = NoPolicy
    /\ stream = << >>
    /\ frameno = 0
    /\ keyframes = << >>
    /\ downscaled = << >>
    /\ decision = None

\* One call of analyze_next_frame.  A panic ends the run.
Analyze ==
    /\ calls < MaxCalls
    /\ outcome # "panicked"
    /\ \E frame_set \in FrameSets(det, config) :
         \E r \in UNION { LET examined == examine(det, frame_set, overflow_checks)
                          IN  { complete(det, examined,
                                         keyframe_distance(input_frameno,
                                                           previous_keyframe,
                                                           overflow_checks)) :
                                  input_frameno \in Framenos,
                                  previous_keyframe \in PreviousKeyframes } :
                            overflow_checks \in BOOLEAN } :
           /\ det' = r.self
           /\ outcome' = r.outcome
    /\ calls' = calls + 1
    /\ UNCHANGED << config, cmp, policy, stream, frameno, keyframes, downscaled, decision >>

Next == Analyze

Spec == Init /\ [][Next]_vars

(***************************************************************************)
(* SpecNew: SceneChangeDetector::new applied to its arguments.             *)
(***************************************************************************)
\* Largest lookahead distance a detector is constructed with.
MaxLookahead == 7
\* Frame widths and heights, around every boundary of the downscale policy.
Edges == {1, 240, 241, 480, 481, 720, 721, 1080, 1081, 1600, 1601, 4096}

NewArgs ==
    [ bit_depth : {8, 10},
      lookahead_distance : 0..MaxLookahead,
      resolution : Edges \X Edges,
      kf_intervals : { << 0, 1000 >> } ]

InitNew ==
    /\ config \in NewArgs
    /\ det = None
    /\ outcome = "none"
    /\ calls = 0
    /\ cmp = NoCompare
    /\ policy = NoPolicy
    /\ stream = << >>
    /\ frameno = 0
    /\ keyframes = << >>
    /\ downscaled = << >>
    /\ decision = None

New ==
    /\ ~ policy.applied
    /\ det' = Construct(config)
    /\ policy' = [ applied |-> TRUE,
                   scale_func |-> detect_scale_factor(config.resolution[1],
                                                      config.resolution[2]) ]
    /\ UNCHANGED << config, outcome, calls, cmp, stream, frameno, keyframes, downscaled,
                   decision >>

NextNew == New

SpecNew == InitNew /\ [][NextNew]_vars

(***************************************************************************)
(* SpecCompare: the comparator, fast_scenecut, called pair after pair.     *)
(***************************************************************************)
\* Number of fast_scenecut calls in one run.
MaxCompares == 3
CompareLumas == {0, 10, 255}
CompareConfigs ==
    [ bit_depth : {8},
      lookahead_distance : {5},
      resolution : Resolutions,
      kf_intervals : { << 0, 1000 >> } ]

InitCompare ==
    /\ config \in CompareConfigs
    /\ det = Construct(config)
    /\ outcome = "none"
    /\ calls = 0
    /\ cmp = NoCompare
    /\ policy = NoPolicy
    /\ stream = << >>
    /\ frameno = 0
    /\ keyframes = << >>
    /\ downscaled = << >>
    /\ decision = None

\* One call of fast_scenecut on two frames of the caller's choice; cmp keeps
\* the lumas of this pair and of the pair before it, and the result.
Compare ==
    /\ cmp.n < MaxCompares
    /\ \E luma1 \in CompareLumas, luma2 \in CompareLumas :
         LET r == fast_scenecut(det, Frame(config, luma1), Frame(config, luma2))
         IN  /\ det' = r.self
             /\ cmp' = [ n |-> cmp.n + 1,
                         frame1 |-> luma1,
                         frame2 |-> luma2,
                         previous |-> IF cmp.n = 0 THEN None
                                      ELSE Some(<< cmp.frame1, cmp.frame2 >>),
                         result |-> r.result ]
    /\ UNCHANGED << config, outcome, calls, policy, stream, frameno, keyframes, downscaled,
                   decision >>

NextCompare == Compare

SpecCompare == InitCompare /\ [][NextCompare]_vars

(***************************************************************************)
(* SpecStream: the caller (detect_scene_changes) feeding a whole video,    *)
(* the window sliding by one frame per call.                               *)
(***************************************************************************)
\* Longest video, in frames.
MaxStream == 10
StreamConfigs ==
    [ bit_depth : {8},
      lookahead_distance : {2, 5},
      resolution : Resolutions,
      kf_intervals : { << 0, 1000 >> } ]

Streams == UNION { [1..n -> Lumas] : n \in 2..MaxStream }

InitStream ==
    /\ config \in StreamConfigs
    /\ det = Construct(config)
    /\ outcome = "none"
    /\ calls = 0
    /\ cmp = NoCompare
    /\ policy = NoPolicy
    /\ stream \in Streams
    /\ frameno = 0
    /\ keyframes = << >>
    /\ downscaled = << >>
    /\ decision = None

\* The window presented for frame number k >= 1: the frames k - 1 .. k +
\* lookahead_distance that the video still has (frame i is stream[i + 1]).
frame_set_for(c, video, k) ==
    LET last == Min(k + c.lookahead_distance + 1, Len(video))
    IN  [i \in 1..(last - k + 1) |-> Frame(c, video[k + i - 1])]

\* Frame 0 opens the video and is a keyframe without a call.
FirstFrame ==
    /\ frameno = 0
    /\ frameno' = 1
    /\ keyframes' = << 0 >>
    /\ UNCHANGED << config, det, outcome, calls, cmp, policy, stream, downscaled, decision >>

\* Every later frame is put to analyze_next_frame with the last keyframe,
\* until fewer than two frames are left.
NextFrame ==
    /\ frameno >= 1
    /\ outcome # "panicked"
    /\ Len(frame_set_for(config, stream, frameno)) >= 2
    /\ \E overflow_checks \in BOOLEAN :
         LET frame_set == frame_set_for(config, stream, frameno)
             r == analyze_next_frame(det, frame_set, frameno, keyframes[Len(keyframes)],
                                     overflow_checks)
             positions == downscaled_positions(det, frame_set, overflow_checks)
         IN  /\ det' = r.self
             /\ outcome' = r.outcome
             /\ keyframes' = IF r.outcome = "returned" /\ r.scenecut
                             THEN Append(keyframes, frameno) ELSE keyframes
             /\ downscaled' = downscaled
                  \o [ i \in DOMAIN positions |-> frameno - 1 + positions[i] ]
    /\ calls' = calls + 1
    /\ frameno' = frameno + 1
    /\ UNCHANGED << config, cmp, policy, stream, decision >>

NextStream == FirstFrame \/ NextFrame

SpecStream == InitStream /\ [][NextStream]_vars

(***************************************************************************)
(* Claims about analyze_next_frame (Spec).  A claim about every call is    *)
(* stated of every call that can be made next, in every reachable state of *)
(* a detector that has not panicked.                                       *)
(***************************************************************************)
Ready == outcome # "panicked"

\* C1 as stated, where it asks least: of the calls that return, with a
\* window of at least one frame and distance >= max_kf_interval (and >=
\* min_kf_interval), every one returns true.  distance is the u64 that
\* mod.rs 159 computes; a call that panics there has none.
C1_MaxIntervalForcesTrue ==
    Ready =>
      \A frame_set \in FrameSets(det, config), overflow_checks \in BOOLEAN :
        LET examined == examine(det, frame_set, overflow_checks)
        IN  \A input_frameno \in Framenos, previous_keyframe \in PreviousKeyframes :
                LET computed == keyframe_distance(input_frameno, previous_keyframe,
                                                  overflow_checks)
                    distance == computed[1]
                    r == complete(det, examined, computed)
                IN  ( /\ computed # None
                      /\ ~ u64_lt(distance, det.max_kf_interval)
                      /\ ~ u64_lt(distance, det.min_kf_interval)
                      /\ Len(frame_set) >= 1
                      /\ r.outcome = "returned" )
                      => r.scenecut

\* C1 amended: a call whose window is longer than lookahead_offset, with
\* distance >= max_kf_interval and distance >= min_kf_interval, never returns
\* false: when it returns, it returns true whatever adaptive_scenecut said.
\* distance is the u64 that mod.rs 159 computes, in either build.
C1_MaxIntervalForcesTruePastGuard ==
    Ready =>
      \A frame_set \in FrameSets(det, config), overflow_checks \in BOOLEAN :
        LET examined == examine(det, frame_set, overflow_checks)
        IN  \A input_frameno \in Framenos, previous_keyframe \in PreviousKeyframes :
                LET computed == keyframe_distance(input_frameno, previous_keyframe,
                                                  overflow_checks)
                    distance == computed[1]
                    r == complete(det, examined, computed)
                IN  ( /\ computed # None
                      /\ ~ u64_lt(distance, det.max_kf_interval)
                      /\ ~ u64_lt(distance, det.min_kf_interval)
                      /\ Len(frame_set) > det.lookahead_offset
                      /\ r.outcome = "returned" )
                      => r.scenecut

\* C1 witness: after an earlier call, a call past the guard whose adaptive decision is false and
\* whose distance reaches max_kf_interval returns true.
C1_Witness ==
    /\ Ready
    /\ calls >= 1
    /\ \E frame_set \in FrameSets(det, config), overflow_checks \in BOOLEAN :
         LET examined == examine(det, frame_set, overflow_checks)
         IN  \E input_frameno \in Framenos, previous_keyframe \in PreviousKeyframes :
                 LET computed == keyframe_distance(input_frameno, previous_keyframe,
                                                   overflow_checks)
                     distance == computed[1]
                     r == complete(det, examined, computed)
                 IN  /\ computed # None
                     /\ ~ u64_lt(distance, det.max_kf_interval)
                     /\ ~ u64_lt(distance, det.min_kf_interval)
                     /\ examined.outcome = "decided"
                     /\ ~ examined.adaptive
                     /\ r.outcome = "returned"
                     /\ r.scenecut

\* C2: every call with distance < min_kf_interval that returns, returns
\* false, whatever adaptive_scenecut said and also when distance >=
\* max_kf_interval.  distance is the u64 that mod.rs 159 computes, in either
\* build; a call that panics there has none.
C2_MinIntervalForcesFalse ==
    Ready =>
      \A frame_set \in FrameSets(det, config), overflow_checks \in BOOLEAN :
        LET examined == examine(det, frame_set, overflow_checks)
        IN  \A input_frameno \in Framenos, previous_keyframe \in PreviousKeyframes :
                LET computed == keyframe_distance(input_frameno, previous_keyframe,
                                                  overflow_checks)
                    distance == computed[1]
                    r == complete(det, examined, computed)
                IN  ( /\ computed # None
                      /\ u64_lt(distance, det.min_kf_interval)
                      /\ r.outcome = "returned" )
                      => ~ r.scenecut

\* C2 witness: after an earlier call, the adaptive decision is true, distance is below
\* min_kf_interval and at least max_kf_interval, and the call returns false.
C2_Witness ==
    /\ Ready
    /\ calls >= 1
    /\ \E frame_set \in FrameSets(det, config), overflow_checks \in BOOLEAN :
         LET examined == examine(det, frame_set, overflow_checks)
         IN  \E input_frameno \in Framenos, previous_keyframe \in PreviousKeyframes :
                 LET computed == keyframe_distance(input_frameno, previous_keyframe,
                                                   overflow_checks)
                     distance == computed[1]
                     r == complete(det, examined, computed)
                 IN  /\ computed # None
                     /\ u64_lt(distance, det.min_kf_interval)
                     /\ ~ u64_lt(distance, det.max_kf_interval)
                     /\ examined.outcome = "decided"
                     /\ examined.adaptive
                     /\ r.outcome = "returned"
                     /\ ~ r.scenecut

\* C3 as stated: between calls the score deque never holds more than
\* 5 + lookahead_distance results.
C3_HistoryWithinCapacity ==
    Len(det.score_deque) <= 5 + config.lookahead_distance

\* C4 as stated: a call whose window is no longer than the current decision
\* offset (deque_offset), once its distance is computed (mod.rs 159), returns
\* false and leaves the score deque unchanged.
C4_ShortOfDequeOffset ==
    Ready =>
      \A frame_set \in FrameSets(det, config), overflow_checks \in BOOLEAN :
        Len(frame_set) <= det.deque_offset =>
          LET examined == examine(det, frame_set, overflow_checks)
          IN  \A input_frameno \in Framenos, previous_keyframe \in PreviousKeyframes :
                  LET computed == keyframe_distance(input_frameno, previous_keyframe,
                                                    overflow_checks)
                      r == complete(det, examined, computed)
                  IN  computed # None
                        => /\ r.outcome = "returned"
                           /\ ~ r.scenecut
                           /\ r.self.score_deque = det.score_deque

\* C4 amended: a call whose window is no longer than lookahead_offset (fixed
\* at construction), once its distance is computed (mod.rs 159, which panics
\* in a build with overflow checks when previous_keyframe is above
\* input_frameno), returns false and leaves the score deque unchanged.
C4_ShortOfLookaheadOffset ==
    Ready =>
      \A frame_set \in FrameSets(det, config), overflow_checks \in BOOLEAN :
        Len(frame_set) <= det.lookahead_offset =>
          LET examined == examine(det, frame_set, overflow_checks)
          IN  \A input_frameno \in Framenos, previous_keyframe \in PreviousKeyframes :
                  LET computed == keyframe_distance(input_frameno, previous_keyframe,
                                                    overflow_checks)
                      r == complete(det, examined, computed)
                  IN  computed # None
                        => /\ r.outcome = "returned"
                           /\ ~ r.scenecut
                           /\ r.self.score_deque = det.score_deque

\* C4 witness: a detector with results in its deque is called with a window
\* of lookahead_offset frames, longer than its deque_offset, at a distance
\* that would force a keyframe; the call returns false and the deque stays.
C4_Witness ==
    /\ Ready
    /\ det.score_deque # << >>
    /\ \E frame_set \in FrameSets(det, config), overflow_checks \in BOOLEAN :
         LET r == analyze_next_frame(det, frame_set, MaxFrameno, 0, overflow_checks)
         IN  /\ Len(frame_set) = det.lookahead_offset
             /\ Len(frame_set) > det.deque_offset
             /\ MaxFrameno >= det.max_kf_interval
             /\ MaxFrameno >= det.min_kf_interval
             /\ r.outcome = "returned"
             /\ ~ r.scenecut
             /\ r.self.score_deque = det.score_deque

\* The decision entry's forward-adjusted cost is at or over its threshold.
Over(self) ==
    self.score_deque[self.deque_offset + 1].forward_adjusted_cost
        >= self.score_deque[self.deque_offset + 1].threshold

\* C6 as stated: when the decision entry is at or over its threshold, no
\* forward entry is and fewer than 2 backward entries are, adaptive_scenecut
\* returns false.
C6_RejectedBelowTwoBack ==
    Ready =>
      \A frame_set \in FrameSets(det, config), overflow_checks \in BOOLEAN :
        LET examined == examine(det, frame_set, overflow_checks)
        IN  ( /\ examined.outcome = "decided"
              /\ Over(examined.self)
              /\ forward_over_tr_count(examined.self) = 0
              /\ back_over_tr_count(examined.self) < 2 )
              => ~ examined.adaptive

\* C6 amended: when the decision entry is at or over its threshold, no
\* forward entry is and exactly 1 backward entry is, adaptive_scenecut
\* returns false.
C6_RejectedWithOneBack ==
    Ready =>
      \A frame_set \in FrameSets(det, config), overflow_checks \in BOOLEAN :
        LET examined == examine(det, frame_set, overflow_checks)
        IN  ( /\ examined.outcome = "decided"
              /\ Over(examined.self)
              /\ forward_over_tr_count(examined.self) = 0
              /\ back_over_tr_count(examined.self) = 1 )
              => ~ examined.adaptive

\* C6 witness: after an earlier call, such a decision is taken, and it is
\* false.
C6_Witness ==
    /\ Ready
    /\ calls >= 1
    /\ \E frame_set \in FrameSets(det, config), overflow_checks \in BOOLEAN :
         LET examined == examine(det, frame_set, overflow_checks)
         IN  /\ examined.outcome = "decided"
             /\ Over(examined.self)
             /\ forward_over_tr_count(examined.self) = 0
             /\ back_over_tr_count(examined.self) = 1
             /\ ~ examined.adaptive

\* C8 as stated: the first call on a fresh detector returns, for every
\* window of at least one frame.
C8_FirstCallReturns ==
    calls = 0 =>
      \A frame_set \in FrameSets(det, config), overflow_checks \in BOOLEAN :
        Len(frame_set) >= 1 => examine(det, frame_set, overflow_checks).outcome # "panicked"

(***************************************************************************)
(* Claims about the video fed frame by frame (SpecStream).                 *)
(***************************************************************************)
\* The 10-frame video of C5: frames 0-4 alike, frames 5-9 alike, the two
\* halves as far apart as 8-bit luma allows.
Scenario ==
    /\ Len(stream) = 10
    /\ \A i \in 1..5 : stream[i] = stream[1]
    /\ \A i \in 6..10 : stream[i] = stream[6]
    /\ Abs(stream[1] - stream[6]) = 255

IsKeyframe(k) == \E i \in DOMAIN keyframes : keyframes[i] = k

\* C5: on the scenario video, with min_kf_interval = 0 and max_kf_interval =
\* 1000, no call panics and, of the frames analysed so far, exactly frame 5
\* got true.
C5_CutExactlyAtFrame5 ==
    (Scenario /\ config.kf_intervals = << 0, 1000 >>)
      => /\ outcome # "panicked"
         /\ calls = IF frameno = 0 THEN 0 ELSE frameno - 1
         /\ \A k \in 1..(frameno - 1) : IsKeyframe(k) <=> (k = 5)

\* C5 witness: the scenario video was fed to its end under lookahead 5: the
\* nine calls were made and the keyframes are 0 (the opening frame) and 5.
C5_Witness ==
    /\ Scenario
    /\ config.lookahead_distance = 5
    /\ frameno = 10
    /\ calls = 9
    /\ keyframes = << 0, 5 >>

(***************************************************************************)
(* Claims about the comparator (SpecCompare).                              *)
(***************************************************************************)
\* The last pair compared starts with the frame the pair before it ended with.
Chained == cmp.n >= 2 /\ cmp.previous[1][2] = cmp.frame1

\* C7: the result for (B, C), compared right after (A, B), is the result a
\* freshly constructed detector gives for (B, C), with a scale function and
\* without one.
C7_ChainedPairAsFresh ==
    Chained =>
      cmp.result = fast_scenecut(Construct(config), Frame(config, cmp.frame1),
                                 Frame(config, cmp.frame2)).result

\* C7 witness: (A, B) then (B, C) were compared through the downscaled
\* buffer, A, B and C all different.
C7_Witness ==
    /\ Chained
    /\ det.scale_func # None
    /\ cmp.previous[1][1] # cmp.frame1
    /\ cmp.previous[1][1] # cmp.frame2
    /\ cmp.frame1 # cmp.frame2
    /\ cmp.result.forward_adjusted_cost > 0

(***************************************************************************)
(* Claims about construction (SpecNew).                                    *)
(***************************************************************************)
\* C9 as stated: a fresh detector's deque offset is min(5, lookahead_distance).
C9_OffsetIsMinOfFive ==
    policy.applied => det.deque_offset = Min(5, config.lookahead_distance)

\* C9 amended: a fresh detector's deque offset is 5 when lookahead_distance
\* >= 5 and 0 otherwise.
C9_OffsetIsFiveOrZero ==
    policy.applied =>
      /\ config.lookahead_distance >= 5 => det.deque_offset = 5
      /\ config.lookahead_distance < 5 => det.deque_offset = 0

\* C9 witness: a detector constructed with a lookahead distance of 1 to 4
\* starts at offset 0.
C9_Witness ==
    /\ policy.applied
    /\ config.lookahead_distance \in 1..4
    /\ det.deque_offset = 0

SmallerEdge == Min(config.resolution[1], config.resolution[2])

\* The factor a scale function stands for; none is no scaling.
FactorOf(scale_func) == IF scale_func = None THEN 1 ELSE scale_func[1].factor

IsPowerOfTwo(f) == \E k \in 0..30 : f = 2 ^ k

\* C10: the policy follows the table on the smaller edge; it is monotone in
\* the smaller edge over all resolutions; every factor it returns is a power
\* of two.
C10_DownscalePolicy ==
    policy.applied =>
      /\ SmallerEdge <= 240 => policy.scale_func = None
      /\ (240 < SmallerEdge /\ SmallerEdge <= 480)
           => policy.scale_func = Some(ScaleFunction(2))
      /\ (480 < SmallerEdge /\ SmallerEdge <= 720)
           => policy.scale_func = Some(ScaleFunction(4))
      /\ (720 < SmallerEdge /\ SmallerEdge <= 1080)
           => policy.scale_func = Some(ScaleFunction(8))
      /\ (1080 < SmallerEdge /\ SmallerEdge <= 1600)
           => policy.scale_func = Some(ScaleFunction(16))
      /\ 1600 < SmallerEdge => policy.scale_func = Some(ScaleFunction(32))
      /\ \A other \in Edges \X Edges :
           SmallerEdge <= Min(other[1], other[2])
             => FactorOf(policy.scale_func)
                  <= FactorOf(detect_scale_factor(other[1], other[2]))
      /\ policy.scale_func # None => IsPowerOfTwo(policy.scale_func[1].factor)

\* C10 witness: a wide frame whose height alone decides: 4096 x 481 gets
\* factor 4.
C10_Witness ==
    /\ policy.applied
    /\ config.resolution = << 4096, 481 >>
    /\ policy.scale_func = Some(ScaleFunction(4))

(***************************************************************************)
(* SpecDecide: adaptive_scenecut applied to a filled cost history.         *)
(***************************************************************************)
\* Longest cost history the decision engine is applied to.
MaxHistory == 5
\* Lumas 0, 10, 255 give costs of 0, 10, 245 and 255 per pixel: below both
\* thresholds, between them (7 and 18 at 8 bits), and above both.
DecideLumas == {0, 10, 255}
DecideConfigs ==
    [ bit_depth : {8},
      lookahead_distance : {5},
      resolution : Resolutions,
      kf_intervals : { << 0, 1000 >> } ]

\* Windows whose consecutive pairs fill a history of 1..MaxHistory results.
DecideWindows(c) ==
    UNION { [1..n -> { Frame(c, luma) : luma \in DecideLumas }] :
              n \in 2..(MaxHistory + 1) }

\* A detector whose history was filled by initialize_score_deque from a
\* window, the decision offset at any of its entries (where priming, mod.rs
\* 177, or the steps back of mod.rs 187 leave it).
InitDecide ==
    /\ config \in DecideConfigs
    /\ \E frame_set \in DecideWindows(config) :
         \E offset \in 0..(Len(frame_set) - 2) :
           det = [ initialize_score_deque(Construct(config), frame_set,
                                          Len(frame_set) - 1)
                     EXCEPT !.deque_offset = offset ]
    /\ outcome = "none"
    /\ calls = 0
    /\ cmp = NoCompare
    /\ policy = NoPolicy
    /\ stream = << >>
    /\ frameno = 0
    /\ keyframes = << >>
    /\ downscaled = << >>
    /\ decision = None

\* One call of adaptive_scenecut.
Decide ==
    /\ decision = None
    /\ decision' = adaptive_scenecut(det)
    /\ UNCHANGED << config, det, outcome, calls, cmp, policy, stream, frameno,
                    keyframes, downscaled >>

NextDecide == Decide

SpecDecide == InitDecide /\ [][NextDecide]_vars

(***************************************************************************)
(* Claims about the decision engine (SpecDecide).                          *)
(***************************************************************************)
Decided == decision # None
Returned(b) == decision = Some(b)

\* Entry i (1-based) has importance-block cost >= 7.0 * bit_depth / 8.
ImpOver(i) == det.score_deque[i].imp_block_cost >= 7 * config.bit_depth

\* The decision entry and the entries newer than it.
NewerOrDecision == 1..(det.deque_offset + 1)
\* The decision entry and the entries older than it.
OlderOrDecision == (det.deque_offset + 1)..Len(det.score_deque)

\* C11: the engine returns true only if some entry among the decision entry
\* and the entries newer than it has importance-block cost >= 7.0 *
\* bit_depth / 8.
C11_FalseWithoutImpBlockEvidence ==
    Returned(TRUE) => \E i \in NewerOrDecision : ImpOver(i)

\* C11 witness: no entry from the decision entry to the newest end reaches
\* the importance-block threshold, an older one does, and the engine
\* returned false.
C11_Witness ==
    /\ Returned(FALSE)
    /\ \A i \in NewerOrDecision : ~ ImpOver(i)
    /\ \E i \in OlderOrDecision : ImpOver(i)

\* C12 as stated: decision entry at or over its threshold, no backward entry
\* over, exactly one forward entry over, wherever it lies: the engine returns
\* true.
C12_OneForwardAnywhere ==
    ( /\ Decided
      /\ Over(det)
      /\ back_over_tr_count(det) = 0
      /\ forward_over_tr_count(det) = 1 )
      => Returned(TRUE)

\* The newest entry of the history (forward_deque[0]) is at or over its
\* threshold.
NewestOver ==
    det.score_deque[1].forward_adjusted_cost >= det.score_deque[1].threshold

\* C12 amended: decision entry at or over its threshold, no backward entry
\* over, exactly one forward entry over: the engine returns true when that
\* entry is the newest of the history, and false when it is any other.
C12_OneForwardNewest ==
    ( /\ Decided
      /\ Over(det)
      /\ back_over_tr_count(det) = 0
      /\ forward_over_tr_count(det) = 1 )
      => (Returned(TRUE) <=> NewestOver)

\* C12 witness: the single forward entry over its threshold is the newest,
\* two or more entries ahead of the decision entry, and the engine returned
\* true.
C12_Witness ==
    /\ Returned(TRUE)
    /\ det.deque_offset >= 2
    /\ Over(det)
    /\ back_over_tr_count(det) = 0
    /\ forward_over_tr_count(det) = 1
    /\ NewestOver

\* C13: decision entry at or over its threshold, no forward entry over, at
\* least 2 backward entries over: the engine returns true.
C13_TwoBackNoForward ==
    ( /\ Decided
      /\ Over(det)
      /\ forward_over_tr_count(det) = 0
      /\ back_over_tr_count(det) >= 2 )
      => Returned(TRUE)

\* C13 witness: exactly 2 backward entries over, forward entries present and
\* none over, and the engine returned true.
C13_Witness ==
    /\ Returned(TRUE)
    /\ Over(det)
    /\ det.deque_offset >= 1
    /\ forward_over_tr_count(det) = 0
    /\ back_over_tr_count(det) = 2

\* C14: the engine never returns true when the decision entry's
\* forward-adjusted cost is below its threshold, and with no entry over its
\* threshold in either slice it returns cost >= threshold.
C14_PlainThreshold ==
    Decided =>
      /\ ~ Over(det) => Returned(FALSE)
      /\ (back_over_tr_count(det) = 0 /\ forward_over_tr_count(det) = 0)
           => Returned(Over(det))

\* C14 witness: the decision entry is below its threshold while two backward
\* entries are over theirs and importance-block evidence exists, and the
\* engine returned false.
C14_Witness ==
    /\ Returned(FALSE)
    /\ ~ Over(det)
    /\ \E i \in OlderOrDecision : ImpOver(i)
    /\ forward_over_tr_count(det) = 0
    /\ back_over_tr_count(det) >= 2

(***************************************************************************)
(* SpecWindows: analyze_next_frame under lookahead distances other than 0  *)
(* and 5, called with arbitrary windows.                                   *)
(***************************************************************************)
WindowConfigs ==
    [ bit_depth : {8},
      lookahead_distance : {2, 6},
      resolution : Resolutions,
      kf_intervals : { << 0, 1000 >> } ]

InitWindows ==
    /\ config \in WindowConfigs
    /\ det = Construct(config)
    /\ outcome = "none"
    /\ calls = 0
    /\ cmp = NoCompare
    /\ policy = NoPolicy
    /\ stream = << >>
    /\ frameno = 0
    /\ keyframes = << >>
    /\ downscaled = << >>
    /\ decision = None

SpecWindows == InitWindows /\ [][Next]_vars

(***************************************************************************)
(* Claims about priming, the per-call comparison and the eviction          *)
(* (SpecWindows).                                                          *)
(***************************************************************************)
\* The result of comparing frame1 with frame2, as a detector that has
\* compared nothing yet gives it.
PairCost(frame1, frame2) == fast_scenecut(Construct(config), frame1, frame2).result

\* The detector has compared nothing yet: its next productive call primes.
Unprimed == Ready /\ det.score_deque = << >>

\* C15: on the first productive call with decision offset > 0 and a window of
\* more than offset + 1 frames, the history afterwards holds exactly offset +
\* 1 entries, newest first: index i holds the cost of the window pair
\* (offset - i, offset - i + 1), so index offset holds (window[0], window[1]);
\* the offset stays.
C15_LongWindowPriming ==
    (Unprimed /\ det.deque_offset > 0) =>
      \A frame_set \in FrameSets(det, config) :
        Len(frame_set) > det.deque_offset + 1 =>
          LET r == analyze_next_frame(det, frame_set, 1, 0, TRUE)
              offset == det.deque_offset
          IN  /\ r.outcome = "returned"
              /\ analyze_next_frame(det, frame_set, 1, 0, FALSE) = r
              /\ r.self.deque_offset = offset
              /\ Len(r.self.score_deque) = offset + 1
              /\ \A i \in 0..offset :
                   r.self.score_deque[i + 1]
                     = PairCost(frame_set[offset - i + 1], frame_set[offset - i + 2])

\* C15 witness: after the first call under lookahead distance 6 the history
\* holds offset + 1 = 6 entries, only the oldest (index offset) with a cost.
C15_Witness ==
    /\ Ready
    /\ calls = 1
    /\ config.lookahead_distance = 6
    /\ det.deque_offset = 5
    /\ Len(det.score_deque) = 6
    /\ det.score_deque[6].forward_adjusted_cost > 0
    /\ \A i \in 1..5 : det.score_deque[i].forward_adjusted_cost = 0

\* C16 as stated: on the first productive call with a window of at most
\* offset + 1 frames, or with decision offset 0 (a window of two frames or
\* more), every consecutive pair of the window is compared exactly once, the
\* decision offset becomes window length - 2, and that index holds the entry
\* of the pair (window[0], window[1]) when the decision is taken.
C16_ShortWindowPriming ==
    Unprimed =>
      \A frame_set \in FrameSets(det, config), overflow_checks \in BOOLEAN :
        ( /\ Len(frame_set) >= 2
          /\ ~ too_few_frames(det, frame_set)
          /\ (det.deque_offset = 0 \/ Len(frame_set) <= det.deque_offset + 1) )
          => LET examined == examine(det, frame_set, overflow_checks)
             IN  /\ examined.outcome = "decided"
                 /\ examined.self.deque_offset = Len(frame_set) - 2
                 /\ Len(examined.self.score_deque) = Len(frame_set) - 1
                 /\ examined.self.score_deque[examined.self.deque_offset + 1]
                      = PairCost(frame_set[1], frame_set[2])

\* C17 as stated, for a detector that is primed: a productive call with a
\* window of at least offset + 2 frames puts the one result of comparing
\* window[offset] with window[offset + 1] at the front of the history and
\* keeps the offset; any other productive call steps the offset back by
\* exactly one and compares nothing.
C17_CompareOrStepBack ==
    (Ready /\ det.score_deque # << >>) =>
      \A frame_set \in FrameSets(det, config), overflow_checks \in BOOLEAN :
        ~ too_few_frames(det, frame_set) =>
          LET examined == examine(det, frame_set, overflow_checks)
              offset == det.deque_offset
          IN  IF Len(frame_set) >= offset + 2
              THEN /\ examined.outcome = "decided"
                   /\ examined.self
                        = run_comparison(det, frame_set[offset + 1], frame_set[offset + 2])
              ELSE /\ examined.outcome = "decided"
                   /\ examined.self = [det EXCEPT !.deque_offset = offset - 1]

\* lookahead_offset as new() derives it from the lookahead distance.
OffsetOf(lookahead_distance) == IF lookahead_distance >= 5 THEN 5 ELSE 0

\* The history a call leaves, given the history it had when its decision was
\* computed and the size over which the oldest entry goes.
Kept(history, size) ==
    IF Len(history) > size THEN SubSeq(history, 1, Len(history) - 1) ELSE history

\* history ends with older: nothing of older was removed or reordered.
EndsWith(history, older) ==
    /\ Len(history) >= Len(older)
    /\ SubSeq(history, Len(history) - Len(older) + 1, Len(history)) = older

\* C18 as stated: a call that computes a decision drops exactly the oldest
\* entry iff the history holds more than 5 + lookahead_distance entries after
\* the decision, and removes or reorders nothing else; a call stopped by the
\* short-window guard leaves the history as it is.
C18_EvictOverLookaheadDistance ==
    Ready =>
      \A frame_set \in FrameSets(det, config), overflow_checks \in BOOLEAN :
        LET examined == examine(det, frame_set, overflow_checks)
            r == conclude(examined, 1)
        IN  /\ examined.outcome = "short" => r.self.score_deque = det.score_deque
            /\ examined.outcome = "decided" =>
                 /\ EndsWith(examined.self.score_deque, det.score_deque)
                 /\ r.self.score_deque
                      = Kept(examined.self.score_deque,
                             5 + config.lookahead_distance)

\* C18 amended: a call that computes a decision drops exactly the oldest
\* entry iff the history holds more than 5 + lookahead_offset entries after
\* the decision (lookahead_offset is 5 for a lookahead distance >= 5, else 0),
\* and removes or reorders nothing else; a call stopped by the short-window
\* guard leaves the history as it is.
C18_EvictOverLookaheadOffset ==
    Ready =>
      \A frame_set \in FrameSets(det, config), overflow_checks \in BOOLEAN :
        LET examined == examine(det, frame_set, overflow_checks)
            r == conclude(examined, 1)
        IN  /\ examined.outcome = "short" => r.self.score_deque = det.score_deque
            /\ examined.outcome = "decided" =>
                 /\ EndsWith(examined.self.score_deque, det.score_deque)
                 /\ r.self.score_deque
                      = Kept(examined.self.score_deque,
                             5 + OffsetOf(config.lookahead_distance))

\* C18 witness: after an earlier call, a call whose history reaches 6
\* entries under lookahead distance 2 (not more than 5 + 2) drops the oldest
\* one, which differs from the newest.
C18_Witness ==
    /\ Ready
    /\ calls >= 1
    /\ config.lookahead_distance = 2
    /\ \E frame_set \in FrameSets(det, config), overflow_checks \in BOOLEAN :
         LET examined == examine(det, frame_set, overflow_checks)
             r == conclude(examined, 1)
             before == examined.self.score_deque
         IN  /\ examined.outcome = "decided"
             /\ r.outcome = "returned"
             /\ Len(before) = 6
             /\ before[1] # before[6]
             /\ r.self.score_deque = SubSeq(before, 1, 5)

(***************************************************************************)
(* Claims about the buffers of the comparator.                             *)
(***************************************************************************)
\* C19 as stated (SpecStream): with a scale function, over a run of calls
\* whose windows slide by one frame, every frame is downscaled exactly once:
\* the first comparison downscales frames 0 and 1, every later one only its
\* new second frame, so the frames downscaled so far are 0, 1, 2, ... each
\* once.
C19_EachFrameDownscaledOnce ==
    det.scale_func # None =>
      downscaled = [ i \in 1..Len(downscaled) |-> i - 1 ]

\* At most one buffer is populated; once a comparison was made (the history
\* is not empty) it is the downscaled buffer iff a scale function exists and
\* the frame-reference buffer iff none does.
OneBufferByScaleFunction ==
    /\ ~ (det.downscaled_frame_buffer # None /\ det.frame_ref_buffer # None)
    /\ det.score_deque # << >> =>
         /\ det.downscaled_frame_buffer # None <=> det.scale_func # None
         /\ det.frame_ref_buffer # None <=> det.scale_func = None

\* A step keeps the scale function, keeps a populated buffer populated and
\* keeps the downscaled buffer marked initialized.
BuffersKept ==
    /\ det'.scale_func = det.scale_func
    /\ det.downscaled_frame_buffer # None =>
         /\ det'.downscaled_frame_buffer # None
         /\ det.downscaled_frame_buffer[1][2] => det'.downscaled_frame_buffer[1][2]
    /\ det.frame_ref_buffer # None => det'.frame_ref_buffer # None

\* C20 (Spec): in every reachable state at most one of the two buffers is
\* populated, after the first comparison exactly the one that the scale
\* function selects, and no step changes the scale function or clears a
\* populated buffer.
C20_OneBufferForLife == [] OneBufferByScaleFunction /\ [][BuffersKept]_vars

\* C20 witness: after two calls that each compared frames, a detector with
\* a scale function holds the downscaled buffer, marked initialized, and no
\* frame references.
C20_Witness ==
    /\ Ready
    /\ calls = 2
    /\ Len(det.score_deque) >= 3
    /\ det.scale_func # None
    /\ det.downscaled_frame_buffer # None
    /\ det.downscaled_frame_buffer[1][2]
    /\ det.frame_ref_buffer = None

(***************************************************************************)
(* Claims about the redundancy of the importance-block test (SpecDecide).  *)
(***************************************************************************)
\* The rules of adaptive_scenecut (mod.rs 263-300) without the
\* importance-block rejection of mod.rs 255-261.
DecisionByCostAlone(self) ==
    LET score == self.score_deque[self.deque_offset + 1]
        cost == score.forward_adjusted_cost
        back == back_over_tr_count(self)
        forward == forward_over_tr_count(self)
    IN  IF cost >= score.threshold
        THEN IF forward = 0 /\ back >= 2 THEN TRUE
             ELSE IF /\ back = 0
                     /\ forward = 1
                     /\ forward_deque(self)[1].forward_adjusted_cost
                            >= forward_deque(self)[1].threshold
                  THEN TRUE
             ELSE IF back # 0 \/ forward # 0 THEN FALSE
             ELSE cost >= score.threshold
        ELSE cost >= score.threshold

\* C24: adaptive_scenecut returns what the same rules return with the
\* importance-block rejection removed, for every history and decision offset.
C24_ImpBlockTestRedundant ==
    Decided => Returned(DecisionByCostAlone(det))

\* C24 witness: the importance-block test rejects (no entry from the decision
\* entry to the oldest reaches 7.0 * bit_depth / 8) while a newer entry is over
\* its cut threshold, and the engine returned false.
C24_Witness ==
    /\ Returned(FALSE)
    /\ \A i \in OlderOrDecision : ~ ImpOver(i)
    /\ forward_over_tr_count(det) >= 1

(***************************************************************************)
(* SpecDepths: analyze_next_frame on detectors of 8 and 10 bit video.      *)
(***************************************************************************)
DepthConfigs ==
    [ bit_depth : {8, 10},
      lookahead_distance : {0, 5},
      resolution : Resolutions,
      kf_intervals : { << 0, 1000 >> } ]

InitDepths ==
    /\ config \in DepthConfigs
    /\ det = Construct(config)
    /\ outcome = "none"
    /\ calls = 0
    /\ cmp = NoCompare
    /\ policy = NoPolicy
    /\ stream = << >>
    /\ frameno = 0
    /\ keyframes = << >>
    /\ downscaled = << >>
    /\ decision = None

SpecDepths == InitDepths /\ [][Next]_vars

\* C21: every result in the history has its three costs equal and its
\* threshold equal to 18.0 * bit_depth / 8, the threshold the detector was
\* constructed with and holds in every state.
C21_UniformResults ==
    /\ det.threshold = FAST_THRESHOLD * config.bit_depth
    /\ \A i \in 1..Len(det.score_deque) :
         LET score == det.score_deque[i]
         IN  /\ score.imp_block_cost = score.forward_adjusted_cost
             /\ score.forward_adjusted_cost = score.backward_adjusted_cost
             /\ score.threshold = FAST_THRESHOLD * config.bit_depth

\* C21 witness: a 10 bit detector after two calls, holding results of cost 0
\* and of cost above zero.
C21_Witness ==
    /\ config.bit_depth = 10
    /\ calls = 2
    /\ outcome = "returned"
    /\ \E i, j \in 1..Len(det.score_deque) :
         /\ det.score_deque[i].forward_adjusted_cost > 0
         /\ det.score_deque[j].forward_adjusted_cost = 0

(***************************************************************************)
(* SpecPairs: analyze_next_frame called with windows of at least two       *)
(* frames.                                                                 *)
(***************************************************************************)
AnalyzePairs ==
    /\ calls < MaxCalls
    /\ outcome # "panicked"
    /\ \E frame_set \in FrameSets(det, config) :
         /\ Len(frame_set) >= 2
         /\ \E r \in UNION { LET examined == examine(det, frame_set, overflow_checks)
                             IN  { complete(det, examined,
                                            keyframe_distance(input_frameno,
                                                              previous_keyframe,
                                                              overflow_checks)) :
                                     input_frameno \in Framenos,
                                     previous_keyframe \in PreviousKeyframes } :
                               overflow_checks \in BOOLEAN } :
              /\ det' = r.self
              /\ outcome' = r.outcome
    /\ calls' = calls + 1
    /\ UNCHANGED << config, cmp, policy, stream, frameno, keyframes, downscaled, decision >>

NextPairs == AnalyzePairs

SpecPairs == InitWindows /\ [][NextPairs]_vars

\* C22: while every window holds at least two frames no call panics in the
\* initialization, the step back or adaptive_scenecut: the deque offset is
\* never decremented below zero, and whenever adaptive_scenecut runs
\* 0 <= deque_offset < length of score_deque.
C22_OffsetIndexesHistory ==
    Ready =>
      \A frame_set \in FrameSets(det, config), overflow_checks \in BOOLEAN :
        Len(frame_set) >= 2 =>
          LET examined == examine(det, frame_set, overflow_checks)
          IN  /\ examined.outcome # "panicked"
              /\ examined.outcome = "decided" =>
                   /\ 0 <= examined.self.deque_offset
                   /\ examined.self.deque_offset < Len(examined.self.score_deque)

\* C22 witness: after two calls the deque offset has come down to 0 and the
\* next call, on a two-frame window, runs the decision on entry 0.
C22_Witness ==
    /\ calls = 2
    /\ outcome = "returned"
    /\ det.deque_offset = 0
    /\ det.score_deque # << >>
    /\ \E frame_set \in FrameSets(det, config), overflow_checks \in BOOLEAN :
         /\ Len(frame_set) = 2
         /\ examine(det, frame_set, overflow_checks).outcome = "decided"
         /\ examine(det, frame_set, overflow_checks).self.deque_offset = 0

(***************************************************************************)
(* Claims about the keyframe bookkeeping and about the deque offset of a   *)
(* detector with lookahead (SpecWindows).                                  *)
(***************************************************************************)
\* self with other keyframe intervals.
WithIntervals(self, kf_intervals) ==
    [self EXCEPT !.min_kf_interval = kf_intervals[1],
                 !.max_kf_interval = kf_intervals[2]]

\* C25: a detector that differs from det only in its keyframe intervals, given
\* the same window with another input_frameno and previous_keyframe, ends the
\* call as det does (returned or panicked) and with the same score deque, deque
\* offset and buffers; construction with other intervals differs in the
\* intervals only.  Every call of either detector on the window is compared
\* with the call of det at distance 0, so any two of them agree.
C25_StateIgnoresKeyframes ==
    \A kf_intervals \in KfIntervals :
      /\ Construct([config EXCEPT !.kf_intervals = kf_intervals])
           = WithIntervals(Construct(config), kf_intervals)
      /\ Ready =>
           \A frame_set \in FrameSets(det, config), overflow_checks \in BOOLEAN :
             LET examined == examine(det, frame_set, overflow_checks)
                 other == examine(WithIntervals(det, kf_intervals), frame_set, overflow_checks)
                 base == conclude(examined, 0)
             IN  \A input_frameno \in Framenos, previous_keyframe \in PreviousKeyframes :
                     LET distance == keyframe_distance(input_frameno, previous_keyframe,
                                                       overflow_checks)
                         a == complete(det, examined, distance)
                         b == complete(WithIntervals(det, kf_intervals), other, distance)
                     IN  previous_keyframe <= input_frameno =>
                           /\ a.outcome = base.outcome
                           /\ a.self = base.self
                           /\ b.outcome = base.outcome
                           /\ b.self = WithIntervals(base.self, kf_intervals)

\* C25 witness: after an earlier call, the two detectors return different
\* values for the same window, and the call evicts an entry in both.
C25_Witness ==
    /\ Ready
    /\ calls >= 1
    /\ \E kf_intervals \in KfIntervals :
         \E frame_set \in FrameSets(det, config), overflow_checks \in BOOLEAN :
           LET examined == examine(det, frame_set, overflow_checks)
               other == examine(WithIntervals(det, kf_intervals), frame_set, overflow_checks)
               a == conclude(examined, 2)
               b == conclude(other, 0)
           IN  /\ a.outcome = "returned"
               /\ examined.outcome = "decided"
               /\ a.scenecut # b.scenecut
               /\ Len(a.self.score_deque) < Len(examined.self.score_deque)
               /\ b.self.score_deque = a.self.score_deque

\* With lookahead_distance >= 5 the deque offset is 5 or 4.
OffsetFiveOrFour ==
    config.lookahead_distance >= 5 => det.deque_offset \in {4, 5}

\* With lookahead_distance >= 5 a step never raises the deque offset and
\* never empties a score deque that holds results.
PrimedForLife ==
    config.lookahead_distance >= 5 =>
      /\ det'.deque_offset <= det.deque_offset
      /\ det.score_deque # << >> => det'.score_deque # << >>

\* C26: for a detector constructed with lookahead_distance >= 5 the deque
\* offset is 5 or 4 in every state and never goes up (so it is decremented
\* at most once), and a score deque that holds results is never empty again
\* (so the initialization runs at most once), whatever the window lengths.
C26_OffsetFiveThenFour == [] OffsetFiveOrFour /\ [][PrimedForLife]_vars

\* C26 witness: a detector with lookahead after two calls, the deque offset
\* stepped back to 4 by the second one: the history still holds the 6
\* results of a 7-frame first window, the newest of them over its threshold.
C26_Witness ==
    /\ config.lookahead_distance >= 5
    /\ calls = 2
    /\ outcome = "returned"
    /\ det.deque_offset = 4
    /\ Len(det.score_deque) = 6
    /\ det.score_deque[1].forward_adjusted_cost >= det.score_deque[1].threshold

(***************************************************************************)
(* Claim about the cost samples of a sliding window (SpecStream).          *)
(***************************************************************************)
\* C23: on every call of the frame-by-frame driver that reaches a decision,
\* each result the call inserts is the cost of the two window frames handed
\* to that comparison (the most recent comparison at index 0), and the entry
\* at the decision offset is the cost of (window[0], window[1]).
C23_SamplesArePairCosts ==
    ( /\ frameno >= 1
      /\ Ready
      /\ Len(frame_set_for(config, stream, frameno)) >= 2 ) =>
      \A overflow_checks \in BOOLEAN :
        LET frame_set == frame_set_for(config, stream, frameno)
            examined == examine(det, frame_set, overflow_checks)
            seconds == compared_seconds(det, frame_set, overflow_checks)
            history == examined.self.score_deque
        IN  examined.outcome = "decided" =>
              /\ Len(history) = Len(det.score_deque) + Len(seconds)
              /\ \A j \in DOMAIN seconds :
                   history[Len(seconds) + 1 - j]
                     = PairCost(frame_set[seconds[j]], frame_set[seconds[j] + 1])
              /\ history[examined.self.deque_offset + 1]
                   = PairCost(frame_set[1], frame_set[2])

====
